---- MODULE Spec2Model ----
(***************************************************************************)
(* Booth mapping: the batch of main.py / app.py (process_data) that, for   *)
(* every region (AC or PC) of a state, validates the booths inside the     *)
(* region's polygon, clusters them, selects up to two booths per cluster   *)
(* and records a summary row.                                              *)
(*                                                                         *)
(* utils/clustering_utils.py (process_ac_pc_clustering) is imported by     *)
(* main.py:16 and app.py:11 but is not among the source files; the engine  *)
(* is modelled from sections 4.3 - 4.6 of the specification.               *)
(***************************************************************************)
EXTENDS Integers, Sequences, FiniteSets, TLC

VARIABLES
    booths_gdf,           \* the booth layer: a sequence of points (row i is booth i)
    ac_pc_gdf,            \* the region layer: columns and rows with a geometry
    selection_type,       \* "AC wise" or "PC wise"
    samples_per_ac,       \* requested sample size per region
    pc,                   \* position of the handler: "ready", "idle", "loop", "done",
                          \* "failed", "stopped"; "alloc", "page_stopped",
                          \* "page_raised", "page_shown" in SpecAlloc; "schema",
                          \* "resolved" in SpecSchema; "s3_..." in SpecDownload
    ac_pc_list,           \* list of (code, name) pairs of the batch
    ac_pc_column,         \* the code column process_data resolved
    idx,                  \* loop index into ac_pc_list (1-based)
    all_summary_rows,     \* local list of process_data
    all_selected_booths,  \* local list of process_data
    all_results,          \* local list of process_data
    clustering_calls,     \* history: region codes process_ac_pc_clustering was called for
    app_state,            \* main.py app_state / st.session_state
    response,             \* what process_data answered: None or [status, ...]
    sidebar,              \* app.py sidebar: clusters_per_ac and booths_per_ac shown
    engine_target,        \* the engine's cluster count and target for samples_per_ac
    stored,               \* the region layers the data store holds for the state
    booths_crs,           \* the coordinate reference of the booth layer, or NoCrs
    request,              \* the parameters of the running process request
    summary_response,     \* what get_summary answered last
    alias_list,           \* SpecSchema: the alias list get_column_name is called with
    s3_manager            \* app_state["s3_manager"]: whether a manager is installed,
                          \* its temporary directory and the download_shapefile
                          \* call in progress

vars == <<booths_gdf, ac_pc_gdf, selection_type, samples_per_ac, pc, ac_pc_list,
          ac_pc_column, idx, all_summary_rows, all_selected_booths, all_results,
          clustering_calls, app_state, response, sidebar, engine_target,
          stored, booths_crs, request, summary_response, alias_list, s3_manager>>

----------------------------------------------------------------------------
(* Bounds of the model *)

MaxBooths == 4
MaxIter == 3
MaxSamples == 300
MaxServiceBooths == 2
MaxColumns == 3
MaxPatterns == 3

(* Program constants *)

SamplesPerCluster == 25
BoothsPerCluster == 2
DefaultSamples == 300
MinSamples == 25
MaxSamplesInput == 5000

\* Python None as a column name
None == "None"

\* an unset (None) value and a set one
Unset == <<>>

Some(v) == <<v>>

\* the coordinates a booth can have: the unit square's corners
Points == (0 .. 1) \X (0 .. 1)

BoothLayers == UNION {[1 .. n -> Points] : n \in 0 .. MaxBooths}

BatchSamples == {12, 50, 75}

SelectionTypes == {"AC wise", "PC wise"}

----------------------------------------------------------------------------
(* Generic helpers *)

Max(a, b) == IF a >= b THEN a ELSE b

Min(a, b) == IF a <= b THEN a ELSE b

Abs(a) == IF a >= 0 THEN a ELSE -a

RECURSIVE Digits(_)
\* str(n) of a non-negative integer, as its sequence of decimal digits
Digits(n) == IF n < 10 THEN <<n>> ELSE Append(Digits(n \div 10), n % 10)

\* Python's str ordering on two digit strings: lexicographic, a proper prefix first
RECURSIVE StrLess(_, _)
StrLess(a, b) ==
    IF b = <<>> THEN FALSE
    ELSE IF a = <<>> THEN TRUE
    ELSE IF Head(a) # Head(b) THEN Head(a) < Head(b)
    ELSE StrLess(Tail(a), Tail(b))

RECURSIVE InsertSorted(_, _)
\* insert pair e after every element whose key is not greater (stable)
InsertSorted(e, s) ==
    IF s = <<>> THEN <<e>>
    ELSE IF StrLess(e[1], Head(s)[1]) THEN <<e>> \o s
    ELSE <<Head(s)>> \o InsertSorted(e, Tail(s))

RECURSIVE SortedByCode(_)
\* sorted(result, key=lambda x: x[0])
SortedByCode(s) ==
    IF s = <<>> THEN <<>>
    ELSE InsertSorted(s[Len(s)], SortedByCode(SubSeq(s, 1, Len(s) - 1)))

RECURSIVE Filter(_, _, _)
\* the indices i of 1..n, in increasing order, with keep[i]
Filter(keep, i, n) ==
    IF i > n THEN <<>>
    ELSE (IF keep[i] THEN <<i>> ELSE <<>>) \o Filter(keep, i + 1, n)

RECURSIVE Concat(_, _, _)
\* f[i] \o f[i+1] \o ... \o f[n]
Concat(f, i, n) == IF i > n THEN <<>> ELSE f[i] \o Concat(f, i + 1, n)

----------------------------------------------------------------------------
(* The S3 manager: the shapefile components and its temporary directory *)

\* s3_utils.py:82: the components download_shapefile asks for, in this order
extensions == <<".shp", ".shx", ".dbf", ".prj">>

\* the layers a state has files for
FileTypes == {"assembly", "booth"}

\* os.path.join(state_temp_dir, base_name + ext): a local path
LocalPath(file_type, ext) == <<file_type, ext>>

\* s3_utils.py:15-37: S3Manager(): the manager after construction: an empty
\* temporary directory and no call in progress; returned is the value of the
\* last call
NewManager ==
    [installed |-> TRUE, temp_dir |-> {}, file_type |-> "", ext |-> 0,
     downloaded_files |-> <<>>, failed |-> {}, returned |-> Unset]

\* main.py:25: app_state["s3_manager"] is None until lifespan has run
NoManager == [NewManager EXCEPT !.installed = FALSE]

----------------------------------------------------------------------------
(* The region layers a state can hold *)

\* coordinate references: the geographic one, a projected one, and none (no .prj)
Geographic == "EPSG:4326"

Projected == "EPSG:32643"

NoCrs == "None"

\* the coordinates of a geographic point in the other reference, and back:
\* the projection is modelled by its false easting and northing
transform(point, from, to) ==
    IF from = to THEN point
    ELSE IF to = Projected THEN <<point[1] + 2, point[2] + 3>>
    ELSE <<point[1] - 2, point[2] - 3>>

Region1 == {p \in Points : p[1] + p[2] <= 1}

Region2 == {p \in Points : p[1] + p[2] = 2}

AssemblyLayer ==
    [columns |-> <<"ac_no", "ac_name">>,
     crs |-> Geographic,
     rows |-> << [attrs |-> [ac_no |-> 2, ac_name |-> "Beta"], geometry |-> Region2],
                 [attrs |-> [ac_no |-> 10, ac_name |-> "Alpha"], geometry |-> Region1] >>]

ParliamentaryLayer ==
    [columns |-> <<"pc_no", "pc_name">>,
     crs |-> Geographic,
     rows |-> << [attrs |-> [pc_no |-> 2, pc_name |-> "Beta"], geometry |-> Region2],
                 [attrs |-> [pc_no |-> 10, pc_name |-> "Alpha"], geometry |-> Region1] >>]

\* the layers stored for the state of the batch
DemoData == [assembly |-> AssemblyLayer, parliamentary |-> ParliamentaryLayer]

\* an assembly layer that also carries the parliamentary code of each row
MixedColumnsLayer ==
    [columns |-> <<"pc_no", "ac", "ac_name">>,
     crs |-> Geographic,
     rows |-> << [attrs |-> [pc_no |-> 7, ac |-> 2, ac_name |-> "Beta"],
                  geometry |-> Region2],
                 [attrs |-> [pc_no |-> 8, ac |-> 10, ac_name |-> "Alpha"],
                  geometry |-> Region1] >>]

\* a parliamentary layer whose only code column is an assembly code
NoCodeLayer ==
    [columns |-> <<"ac_no", "pc_name">>,
     crs |-> Geographic,
     rows |-> << [attrs |-> [ac_no |-> 2, pc_name |-> "Beta"], geometry |-> Region2],
                 [attrs |-> [ac_no |-> 10, pc_name |-> "Alpha"], geometry |-> Region1] >>]

\* a parliamentary layer without any code column
UnparsableLayer ==
    [columns |-> <<"pc_name", "id">>,
     crs |-> Geographic,
     rows |-> << [attrs |-> [id |-> 2, pc_name |-> "Beta"], geometry |-> Region2],
                 [attrs |-> [id |-> 10, pc_name |-> "Alpha"], geometry |-> Region1] >>]

\* the western edge: it shares two points with Region1
RegionWest == {p \in Points : p[1] = 0}

\* an assembly layer whose polygons overlap
OverlapLayer ==
    [columns |-> <<"ac_no", "ac_name">>,
     crs |-> Geographic,
     rows |-> << [attrs |-> [ac_no |-> 2, ac_name |-> "Beta"], geometry |-> RegionWest],
                 [attrs |-> [ac_no |-> 10, ac_name |-> "Alpha"], geometry |-> Region1] >>]

\* the region in the coordinates of the projected reference
ProjectedRegion(region) == {transform(p, Geographic, Projected) : p \in region}

\* an assembly layer in a projected reference
ProjectedLayer ==
    [columns |-> <<"ac_no", "ac_name">>,
     crs |-> Projected,
     rows |-> << [attrs |-> [ac_no |-> 2, ac_name |-> "Beta"],
                  geometry |-> ProjectedRegion(Region2)],
                 [attrs |-> [ac_no |-> 10, ac_name |-> "Alpha"],
                  geometry |-> ProjectedRegion(Region1)] >>]

\* a parliamentary layer read without its .prj file
NoCrsLayer ==
    [columns |-> <<"pc_no", "pc_name">>,
     crs |-> NoCrs,
     rows |-> << [attrs |-> [pc_no |-> 2, pc_name |-> "Beta"], geometry |-> Region2],
                 [attrs |-> [pc_no |-> 10, pc_name |-> "Alpha"], geometry |-> Region1] >>]

\* the value of ac_pc_gdf while no layer is loaded
EmptyLayer == [columns |-> <<>>, crs |-> NoCrs, rows |-> <<>>]

\* the layers the store can hold for the state
StoredData ==
    {DemoData,
     [assembly |-> MixedColumnsLayer, parliamentary |-> NoCodeLayer],
     [assembly |-> OverlapLayer, parliamentary |-> UnparsableLayer],
     [assembly |-> ProjectedLayer, parliamentary |-> NoCrsLayer]}

\* data_utils.py:107-110: with a manager the layers are asked of
\* s3_manager.load_shapefile, a method S3Manager does not have (its loader is
\* load_shapefile_from_s3): the call raises AttributeError
prepare_booth_data_raises(manager) == manager.installed

\* data_utils.py:111-122: without a manager the region layer of the selection
\* type is read from the Data directory
prepare_booth_data(manager, data, type) ==
    IF type = "AC wise" THEN data.assembly ELSE data.parliamentary

----------------------------------------------------------------------------
(* Schema resolution and the region list *)

\* pattern in gdf.columns: membership in the column index
ColumnSet(columns) == {columns[i] : i \in DOMAIN columns}

RECURSIVE get_column_name_by_column(_, _)
\* mutant: the first column that is a pattern, or None
get_column_name_by_column(columns, patterns) ==
    IF columns = <<>> THEN None
    ELSE IF Head(columns) \in ColumnSet(patterns) THEN Head(columns)
    ELSE get_column_name_by_column(Tail(columns), patterns)

RECURSIVE get_column_name(_, _)
\* the first pattern that is a column, or None; columns is the layer's
\* ordered column index
get_column_name(columns, patterns) ==
    IF patterns = <<>> THEN None
    ELSE IF Head(patterns) \in ColumnSet(columns) THEN Head(patterns)
    ELSE get_column_name(columns, Tail(patterns))

\* the sequences of at most n different names
NameLists(names, n) ==
    {q \in UNION {[1 .. m -> names] : m \in 0 .. n} :
        \A i, j \in DOMAIN q : i # j => q[i] # q[j]}

NamePatterns == <<"ac_name", "pc_name", "name", "AC_NAME", "PC_NAME", "NAME">>

ListCodePatterns == <<"ac_no", "pc_no", "ac", "pc", "AC_NO", "PC_NO", "AC", "PC">>

code_patterns(type) ==
    IF type = "AC wise" THEN <<"ac_no", "ac", "AC_NO", "AC">>
    ELSE <<"pc_no", "pc", "PC_NO", "PC">>

get_ac_pc_list(gdf) ==
    LET name_column == get_column_name(gdf.columns, NamePatterns)
        code_column == get_column_name(gdf.columns, ListCodePatterns)
    IN  IF gdf.rows = <<>> THEN <<>>
        ELSE IF name_column # None /\ code_column # None
        THEN SortedByCode([i \in 1 .. Len(gdf.rows) |->
                 <<Digits(gdf.rows[i].attrs[code_column]),
                   gdf.rows[i].attrs[name_column]>>])
        ELSE <<>>

----------------------------------------------------------------------------
(* Containment validation *)

\* booths_gdf.geometry.within(polygon)
within(point, polygon) == point \in polygon

\* data_utils.py:68-69: to_crs raises when the booth layer has no coordinate
\* reference to transform from, or the polygon layer none to transform to
to_crs_raises(from, to) == from # to /\ (from = NoCrs \/ to = NoCrs)

\* data_utils.py:69: what the ValueError of to_crs says: the booth layer has
\* no reference to transform from, or else the call was given None to
\* transform to
to_crs_error(from, to) ==
    IF from = NoCrs THEN "Cannot transform naive geometries"
    ELSE "Must pass either crs or epsg."

\* booths_gdf.to_crs(polygon_gdf.crs)
to_crs(booths, from, to) == [i \in 1 .. Len(booths) |-> transform(booths[i], from, to)]

\* a row of valid_booths: the booth, its geometry in the polygon layer's
\* reference, and the latitude / longitude columns of extract_lat_lon
BoothRow(booths, geometry, i) ==
    [booth |-> i, point |-> geometry[i], latitude |-> booths[i][2],
     longitude |-> booths[i][1]]

\* mutant: the polygon taken from the first row of the layer, not the matching row
validate_booths_in_first_polygon(booths, crs, polygons, ac_pc_code, column) ==
    LET geometry == IF crs # polygons.crs THEN to_crs(booths, crs, polygons.crs)
                    ELSE booths
        polygon == polygons.rows[1].geometry
        inside == Filter([i \in 1 .. Len(booths) |-> within(geometry[i], polygon)],
                         1, Len(booths))
    IN  [j \in 1 .. Len(inside) |-> BoothRow(booths, geometry, inside[j])]

\* data_utils.py:63-90, for layers whose reprojection does not raise
validate_booths_in_polygon(booths, crs, polygons, ac_pc_code, column) ==
    LET geometry == IF crs # polygons.crs THEN to_crs(booths, crs, polygons.crs)
                    ELSE booths
        match == Filter([i \in 1 .. Len(polygons.rows) |->
                     Digits(polygons.rows[i].attrs[column]) = ac_pc_code],
                     1, Len(polygons.rows))
    IN  IF match = <<>> THEN <<>>
        ELSE LET polygon == polygons.rows[match[1]].geometry
                 inside == Filter([i \in 1 .. Len(booths) |->
                                      within(geometry[i], polygon)], 1, Len(booths))
             IN  [j \in 1 .. Len(inside) |-> BoothRow(booths, geometry, inside[j])]

\* data_utils.py:65-69: whether validate_booths_in_polygon raises
validate_raises(crs, polygons) ==
    crs # polygons.crs /\ to_crs_raises(crs, polygons.crs)

----------------------------------------------------------------------------
(* Cluster count allocation *)

\* mutant: the quotient truncated instead of rounded
PyRound_truncated(s, d) == s \div d

\* Python round(s / d) for integers s and d > 0: the nearest integer, a tie
\* (2s an odd multiple of d) going to the even neighbour
PyRound(s, d) ==
    LET q == s \div d
        r == s % d
    IN  IF 2 * r < d THEN q
        ELSE IF 2 * r > d THEN q + 1
        ELSE IF q % 2 = 0 THEN q ELSE q + 1

\* app.py:148  clusters_per_ac = round(samples_per_ac / 25)
clusters_per_ac(s) == PyRound(s, SamplesPerCluster)

\* app.py:149  booths_per_ac = clusters_per_ac * 2
booths_per_ac(s) == clusters_per_ac(s) * BoothsPerCluster

\* section 4.3: clusters = max(1, round(requested_samples / 25))
n_clusters(s) == Max(1, PyRound(s, SamplesPerCluster))

\* section 4.3: selection targets 2 x clusters booths
target_selected(s) == BoothsPerCluster * n_clusters(s)

----------------------------------------------------------------------------
(* Spatial clustering (section 4.4).  A centroid is kept as the exact      *)
(* rational (sx / n, sy / n): the coordinate sums and the member count.    *)

\* squared Euclidean distance from point p to centroid c, times c.n^2
ScaledDist(p, c) == (c.n * p[1] - c.sx) * (c.n * p[1] - c.sx)
                    + (c.n * p[2] - c.sy) * (c.n * p[2] - c.sy)

\* p is strictly closer to centroid a than to centroid b
Closer(p, a, b) == ScaledDist(p, a) * b.n * b.n < ScaledDist(p, b) * a.n * a.n

\* index of the nearest centroid, the lowest index among equally near ones
Nearest(p, centers) ==
    CHOOSE j \in 1 .. Len(centers) :
        /\ \A i \in 1 .. Len(centers) : ~Closer(p, centers[i], centers[j])
        /\ \A i \in 1 .. j - 1 : Closer(p, centers[j], centers[i])

\* sum of coordinate d over the points i..Len(pts) assigned to centroid j
SumCoord(pts, assign, j, d) ==
    LET RECURSIVE go(_)
        go(i) == IF i > Len(pts) THEN 0
                 ELSE (IF assign[i] = j THEN pts[i][d] ELSE 0) + go(i + 1)
    IN  go(1)

\* centroid j as the arithmetic mean of its members; an empty cluster keeps its centroid
Recentre(pts, assign, centers) ==
    [j \in 1 .. Len(centers) |->
        LET members == {i \in 1 .. Len(pts) : assign[i] = j}
        IN  IF members = {} THEN centers[j]
            ELSE [sx |-> SumCoord(pts, assign, j, 1),
                  sy |-> SumCoord(pts, assign, j, 2),
                  n |-> Cardinality(members)]]

\* every point's nearest centroid
Assign(pts, centers) == [i \in 1 .. Len(pts) |-> Nearest(pts[i], centers)]

RECURSIVE KMeans(_, _, _)
\* the iteration's end: stop when the assignment is stable under the recomputed
\* centroids or the iteration cap is reached
KMeansMoved(pts, iter, assign, moved) ==
    IF iter >= MaxIter \/ assign = Assign(pts, moved)
    THEN [assign |-> assign, centers |-> moved]
    ELSE KMeans(pts, moved, iter + 1)

\* recompute each centroid as the mean of the points assigned to it
KMeansAssigned(pts, centers, iter, assign) ==
    KMeansMoved(pts, iter, assign, Recentre(pts, assign, centers))

\* assign each point to its nearest centroid, recompute the centroids, repeat
KMeans(pts, centers, iter) == KMeansAssigned(pts, centers, iter, Assign(pts, centers))

\* the seeds an initialisation can pick: k rows of the input, in input order
Seeds(n, k) == {S \in SUBSET (1 .. n) : Cardinality(S) = k}

InitialCenters(pts, seed) ==
    LET order == Filter([i \in 1 .. Len(pts) |-> i \in seed], 1, Len(pts))
    IN  [j \in 1 .. Len(order) |->
            [sx |-> pts[order[j]][1], sy |-> pts[order[j]][2], n |-> 1]]

----------------------------------------------------------------------------
(* Representative selection (section 4.5) *)

\* position of member m among the members of its cluster, ordered by distance
\* to the centroid, equally distant members in input order
Rank(pts, assign, centers, m) ==
    1 + Cardinality({o \in 1 .. Len(pts) :
            /\ assign[o] = assign[m]
            /\ \/ ScaledDist(pts[o], centers[assign[m]]) < ScaledDist(pts[m], centers[assign[m]])
               \/ /\ ScaledDist(pts[o], centers[assign[m]]) = ScaledDist(pts[m], centers[assign[m]])
                  /\ o < m})

\* mutant: the first two members in input order, whatever their distance
SelectFromCluster_first(pts, assign, centers, j) ==
    LET chosen == {m \in 1 .. Len(pts) :
                      /\ assign[m] = j
                      /\ Cardinality({o \in 1 .. m - 1 : assign[o] = j}) < BoothsPerCluster}
    IN  [r \in 1 .. Cardinality(chosen) |->
            CHOOSE m \in chosen : Cardinality({o \in chosen : o < m}) = r - 1]

\* the members of cluster j selected: the (up to) two nearest to its centroid, nearest first
SelectFromCluster(pts, assign, centers, j) ==
    LET chosen == {m \in 1 .. Len(pts) :
                      assign[m] = j /\ Rank(pts, assign, centers, m) <= BoothsPerCluster}
    IN  [r \in 1 .. Cardinality(chosen) |->
            CHOOSE m \in chosen : Rank(pts, assign, centers, m) = r]

----------------------------------------------------------------------------
(* Completeness (section 4.6) and the engine's result *)

ReasonNone == ""

ReasonInsufficient == "Insufficient booths"

ReasonReduced == "Insufficient booths, clusters reduced"

\* complete when the number selected is 2 x the originally requested cluster count
is_complete(n_selected, s) == n_selected = target_selected(s)

reason(n_selected, total, s) ==
    IF is_complete(n_selected, s) THEN ReasonNone
    ELSE IF total < n_clusters(s) THEN ReasonReduced
    ELSE ReasonInsufficient

\* a booth row annotated with its cluster id (0 .. K-1)
ClusteredRow(valid_booths, km, i) ==
    [booth |-> valid_booths[i].booth, point |-> valid_booths[i].point,
     latitude |-> valid_booths[i].latitude, longitude |-> valid_booths[i].longitude,
     cluster |-> km.assign[i] - 1]

\* the engine's result from the clustering km and the selected rows
EngineResult(valid_booths, s, km, selected) ==
    [total_booths |-> Len(valid_booths),
     clustered_booths |-> [i \in 1 .. Len(valid_booths) |-> ClusteredRow(valid_booths, km, i)],
     selected_booths |-> selected,
     cluster_centers |-> km.centers,
     is_complete |-> is_complete(Len(selected), s),
     reason |-> reason(Len(selected), Len(valid_booths), s)]

\* the selected rows: for each cluster in id order, its selected members
SelectedRows(valid_booths, km, picks) ==
    Concat([j \in 1 .. Len(picks) |->
               [r \in 1 .. Len(picks[j]) |-> ClusteredRow(valid_booths, km, picks[j][r])]],
           1, Len(picks))

ClusterAndSelect(valid_booths, s, pts, km) ==
    EngineResult(valid_booths, s, km,
        SelectedRows(valid_booths, km,
            [j \in 1 .. Len(km.centers) |->
                SelectFromCluster(pts, km.assign, km.centers, j)]))

PointsOf(valid_booths) == [i \in 1 .. Len(valid_booths) |-> valid_booths[i].point]

\* process_ac_pc_clustering(valid_booths, samples_per_ac), for one seed of the
\* centroid initialisation; valid_booths is not empty
process_ac_pc_clustering(valid_booths, s, seed) ==
    ClusterAndSelect(valid_booths, s, PointsOf(valid_booths),
                     KMeans(PointsOf(valid_booths),
                            InitialCenters(PointsOf(valid_booths), seed), 1))

\* the reduced cluster count: clustering cannot make more groups than points
reduced_clusters(total, s) == Min(n_clusters(s), total)

----------------------------------------------------------------------------
(* process_data: the rows it builds *)

selected_state == "Demo"

CodeKey(type) == IF type = "AC wise" THEN "AC" ELSE "PC"

NameKey(type) == IF type = "AC wise" THEN "AC_Name" ELSE "PC_Name"

\* mutant: the reason of the row left empty
EmptySummaryRow_blank(type, code, name, s) ==
    (CodeKey(type) :> code) @@ (NameKey(type) :> name) @@
    [Total_Booths |-> 0,
     Selected_Booths |-> 0,
     Status |-> "Not completed",
     Reason |-> "",
     Samples_Requested |-> s]

\* main.py:220-228, app.py:187-195: the row of a region without valid booths
EmptySummaryRow(type, code, name, s) ==
    (CodeKey(type) :> code) @@ (NameKey(type) :> name) @@
    [Total_Booths |-> 0,
     Selected_Booths |-> 0,
     Status |-> "Not completed",
     Reason |-> "No booths found within boundary",
     Samples_Requested |-> s]

\* mutant: the selected count taken from the total
SummaryRow_total(type, code, name, result, s) ==
    (CodeKey(type) :> code) @@ (NameKey(type) :> name) @@
    [Total_Booths |-> result.total_booths,
     Selected_Booths |-> result.total_booths,
     Status |-> IF result.is_complete THEN "Completed" ELSE "Not completed",
     Reason |-> result.reason,
     Samples_Requested |-> s]

\* mutant: the status decided by the booths available, not by the booths selected
SummaryRow_available(type, code, name, result, s) ==
    (CodeKey(type) :> code) @@ (NameKey(type) :> name) @@
    [Total_Booths |-> result.total_booths,
     Selected_Booths |-> Len(result.selected_booths),
     Status |-> IF result.total_booths >= target_selected(s)
                THEN "Completed" ELSE "Not completed",
     Reason |-> result.reason,
     Samples_Requested |-> s]

\* mutant: the status decided by whether any booth was selected
SummaryRow_nonempty(type, code, name, result, s) ==
    (CodeKey(type) :> code) @@ (NameKey(type) :> name) @@
    [Total_Booths |-> result.total_booths,
     Selected_Booths |-> Len(result.selected_booths),
     Status |-> IF Len(result.selected_booths) > 0 THEN "Completed" ELSE "Not completed",
     Reason |-> result.reason,
     Samples_Requested |-> s]

\* main.py:243-251, app.py:209-217: the row of a clustered region
SummaryRow(type, code, name, result, s) ==
    (CodeKey(type) :> code) @@ (NameKey(type) :> name) @@
    [Total_Booths |-> result.total_booths,
     Selected_Booths |-> Len(result.selected_booths),
     Status |-> IF result.is_complete THEN "Completed" ELSE "Not completed",
     Reason |-> result.reason,
     Samples_Requested |-> s]

\* main.py:235-241: the entry appended to all_results
ResultEntry(type, code, name, result) ==
    [ac_pc_code |-> code, ac_pc_name |-> name, state |-> selected_state,
     selection_type |-> type] @@ result

\* mutant: the cluster id reported one-based
extract_booth_info_one_based(row, state, code, name) ==
    [state |-> state, district |-> "", district_n |-> "", pc |-> "", pc_name |-> "",
     ac |-> "", ac_name |-> "", booth |-> row.booth, booth_name |-> "",
     cluster |-> row.cluster + 1, latitude |-> row.latitude, longitude |-> row.longitude]

\* main.py:69-116: the booth layer has a booth column and the derived
\* latitude / longitude; no district, pc or ac column is present
extract_booth_info(row, state, code, name) ==
    [state |-> state, district |-> "", district_n |-> "", pc |-> "", pc_name |-> "",
     ac |-> "", ac_name |-> "", booth |-> row.booth, booth_name |-> "",
     cluster |-> row.cluster, latitude |-> row.latitude, longitude |-> row.longitude]

\* mutant: the emptiness test never succeeds
IsEmpty_never(frame) == Len(frame) < 0

\* valid_booths.empty
IsEmpty(frame) == Len(frame) = 0

----------------------------------------------------------------------------
(* process_data: the batch, from the point where prepare_booth_data has     *)
(* returned the layers: no manager is installed and the layers come from    *)
(* the Data directory (data_utils.py:111-122)                               *)

NoResults == [results |-> Unset, summary_data |-> Unset, selected_booths_data |-> Unset]

Init ==
    /\ booths_gdf \in BoothLayers
    /\ selection_type \in SelectionTypes
    /\ stored = DemoData
    /\ booths_crs = Geographic
    /\ request = Some([state |-> selected_state, selection_type |-> selection_type])
    /\ summary_response = Unset
    /\ alias_list = <<>>
    /\ s3_manager = NoManager
    /\ ac_pc_gdf = prepare_booth_data(s3_manager, stored, selection_type)
    /\ samples_per_ac \in BatchSamples
    /\ pc = "idle"
    /\ ac_pc_list = <<>>
    /\ ac_pc_column = None
    /\ idx = 0
    /\ all_summary_rows = <<>>
    /\ all_selected_booths = <<>>
    /\ all_results = <<>>
    /\ clustering_calls = <<>>
    /\ app_state = NoResults
    /\ response = Unset
    /\ sidebar = Unset
    /\ engine_target = Unset

\* main.py:292-293: every exception raised inside process_data, an HTTPException
\* included, is answered with status 500 and the exception's text
except_handler(raised) == [status |-> 500, detail |-> raised]

\* raise HTTPException(status_code, detail)
HTTPException(status_code, detail) ==
    [exception |-> "HTTPException", status_code |-> status_code, detail |-> detail]

\* the ValueError geopandas raises from to_crs, or int from a text
ValueError(detail) ==
    [exception |-> "ValueError", status_code |-> 0, detail |-> detail]

\* the AttributeError of a call of a method the object does not have
AttributeError(detail) ==
    [exception |-> "AttributeError", status_code |-> 0, detail |-> detail]

\* mutant: the stored tables are cleared when the batch starts
StartBatch_resets ==
    /\ pc = "idle"
    /\ LET list == get_ac_pc_list(ac_pc_gdf)
           column == get_column_name(ac_pc_gdf.columns, code_patterns(selection_type))
       IN  IF list = <<>>
           THEN /\ response' = Some(except_handler(
                       HTTPException(404, "Could not parse AC/PC data")))
                /\ pc' = "failed"
                /\ UNCHANGED <<ac_pc_list, ac_pc_column, idx>>
           ELSE IF column = None
           THEN /\ response' = Some(except_handler(
                       HTTPException(500, "Could not determine AC/PC column in shapefile")))
                /\ pc' = "failed"
                /\ ac_pc_list' = list
                /\ UNCHANGED <<ac_pc_column, idx>>
           ELSE /\ ac_pc_list' = list
                /\ ac_pc_column' = column
                /\ idx' = 1
                /\ pc' = "loop"
                /\ UNCHANGED response
    /\ UNCHANGED <<s3_manager, stored, booths_crs, request, summary_response, alias_list,
                   booths_gdf, ac_pc_gdf, selection_type, samples_per_ac,
                   all_summary_rows, all_selected_booths, all_results,
                   clustering_calls, sidebar, engine_target>>
    /\ app_state' = NoResults

\* main.py:173-211: load, list the regions, resolve the code column
StartBatch ==
    /\ pc = "idle"
    /\ LET list == get_ac_pc_list(ac_pc_gdf)
           column == get_column_name(ac_pc_gdf.columns, code_patterns(selection_type))
       IN  IF list = <<>>
           THEN /\ response' = Some(except_handler(
                       HTTPException(404, "Could not parse AC/PC data")))
                /\ pc' = "failed"
                /\ UNCHANGED <<ac_pc_list, ac_pc_column, idx>>
           ELSE IF column = None
           THEN /\ response' = Some(except_handler(
                       HTTPException(500, "Could not determine AC/PC column in shapefile")))
                /\ pc' = "failed"
                /\ ac_pc_list' = list
                /\ UNCHANGED <<ac_pc_column, idx>>
           ELSE /\ ac_pc_list' = list
                /\ ac_pc_column' = column
                /\ idx' = 1
                /\ pc' = "loop"
                /\ UNCHANGED response
    /\ UNCHANGED <<s3_manager, stored, booths_crs, request, summary_response, alias_list,
                   booths_gdf, ac_pc_gdf, selection_type, samples_per_ac,
                   all_summary_rows, all_selected_booths, all_results,
                   clustering_calls, app_state, sidebar, engine_target>>

\* main.py:213-230: a loop iteration for a region without valid booths
RegionEmpty ==
    /\ pc = "loop"
    /\ idx <= Len(ac_pc_list)
    /\ ~validate_raises(booths_crs, ac_pc_gdf)
    /\ LET ac_pc_code == ac_pc_list[idx][1]
           ac_pc_name == ac_pc_list[idx][2]
           valid_booths == validate_booths_in_polygon(booths_gdf, booths_crs, ac_pc_gdf,
                                                      ac_pc_code, ac_pc_column)
       IN  /\ IsEmpty(valid_booths)
           /\ all_summary_rows' = Append(all_summary_rows,
                  EmptySummaryRow(selection_type, ac_pc_code, ac_pc_name, samples_per_ac))
    /\ idx' = idx + 1
    /\ UNCHANGED <<s3_manager, stored, booths_crs, request, summary_response, alias_list,
                   booths_gdf, ac_pc_gdf, selection_type, samples_per_ac, pc, ac_pc_list,
                   ac_pc_column, all_selected_booths, all_results, clustering_calls,
                   app_state, response, sidebar, engine_target>>

\* main.py:233-260: record the result of one region
RecordResult(ac_pc_code, ac_pc_name, result) ==
    /\ clustering_calls' = Append(clustering_calls, ac_pc_code)
    /\ all_results' = Append(all_results,
           ResultEntry(selection_type, ac_pc_code, ac_pc_name, result))
    /\ all_summary_rows' = Append(all_summary_rows,
           SummaryRow(selection_type, ac_pc_code, ac_pc_name, result, samples_per_ac))
    /\ all_selected_booths' = all_selected_booths \o
           [r \in 1 .. Len(result.selected_booths) |->
               extract_booth_info(result.selected_booths[r], selected_state,
                                  ac_pc_code, ac_pc_name)]

\* main.py:213-270: a loop iteration for a region with valid booths
ClusterRegion(ac_pc_code, ac_pc_name, valid_booths) ==
    /\ ~IsEmpty(valid_booths)
    /\ \E seed \in Seeds(Len(valid_booths),
                         reduced_clusters(Len(valid_booths), samples_per_ac)) :
          RecordResult(ac_pc_code, ac_pc_name,
                       process_ac_pc_clustering(valid_booths, samples_per_ac, seed))

\* mutant: the booth layer is reprojected in place
RegionClustered_inplace ==
    /\ pc = "loop"
    /\ idx <= Len(ac_pc_list)
    /\ ~validate_raises(booths_crs, ac_pc_gdf)
    /\ ClusterRegion(ac_pc_list[idx][1], ac_pc_list[idx][2],
                     validate_booths_in_polygon(booths_gdf, booths_crs, ac_pc_gdf,
                                                ac_pc_list[idx][1], ac_pc_column))
    /\ idx' = idx + 1
    /\ booths_gdf' = to_crs(booths_gdf, booths_crs, ac_pc_gdf.crs)
    /\ booths_crs' = ac_pc_gdf.crs
    /\ UNCHANGED <<s3_manager, stored, request, summary_response, alias_list,
                   ac_pc_gdf, selection_type, samples_per_ac, pc, ac_pc_list,
                   ac_pc_column, app_state, response, sidebar, engine_target>>

RegionClustered ==
    /\ pc = "loop"
    /\ idx <= Len(ac_pc_list)
    /\ ~validate_raises(booths_crs, ac_pc_gdf)
    /\ ClusterRegion(ac_pc_list[idx][1], ac_pc_list[idx][2],
                     validate_booths_in_polygon(booths_gdf, booths_crs, ac_pc_gdf,
                                                ac_pc_list[idx][1], ac_pc_column))
    /\ idx' = idx + 1
    /\ UNCHANGED <<s3_manager, stored, booths_crs, request, summary_response, alias_list,
                   booths_gdf, ac_pc_gdf, selection_type, samples_per_ac, pc, ac_pc_list,
                   ac_pc_column, app_state, response, sidebar, engine_target>>

RECURSIVE SumOver(_, _)
\* sum of f[1] .. f[n]
SumOver(f, n) == IF n = 0 THEN 0 ELSE f[n] + SumOver(f, n - 1)

\* mutant: the selected-booth table is not stored
StoreResults_partial ==
    /\ pc = "loop"
    /\ idx > Len(ac_pc_list)
    /\ app_state' = [results |-> Some(all_results),
                     summary_data |-> Some(all_summary_rows),
                     selected_booths_data |-> app_state.selected_booths_data]
    /\ response' = Some(
           [status |-> 200,
            total_acs |-> Len(all_results),
            completed |-> Cardinality({i \in 1 .. Len(all_results) :
                                          all_results[i].is_complete}),
            total_booths |-> SumOver([i \in 1 .. Len(all_results) |->
                                         all_results[i].total_booths], Len(all_results)),
            total_selected |-> SumOver([i \in 1 .. Len(all_results) |->
                                           Len(all_results[i].selected_booths)],
                                       Len(all_results))])
    /\ pc' = "done"
    /\ UNCHANGED <<s3_manager, stored, booths_crs, request, summary_response, alias_list,
                   booths_gdf, ac_pc_gdf, selection_type, samples_per_ac, ac_pc_list,
                   ac_pc_column, idx, all_summary_rows, all_selected_booths, all_results,
                   clustering_calls, sidebar, engine_target>>

\* main.py:272-290: store the tables and answer with the statistics
StoreResults ==
    /\ pc = "loop"
    /\ idx > Len(ac_pc_list)
    /\ app_state' = [results |-> Some(all_results),
                     summary_data |-> Some(all_summary_rows),
                     selected_booths_data |-> Some(all_selected_booths)]
    /\ response' = Some(
           [status |-> 200,
            total_acs |-> Len(all_results),
            completed |-> Cardinality({i \in 1 .. Len(all_results) :
                                          all_results[i].is_complete}),
            total_booths |-> SumOver([i \in 1 .. Len(all_results) |->
                                         all_results[i].total_booths], Len(all_results)),
            total_selected |-> SumOver([i \in 1 .. Len(all_results) |->
                                           Len(all_results[i].selected_booths)],
                                       Len(all_results))])
    /\ pc' = "done"
    /\ UNCHANGED <<s3_manager, stored, booths_crs, request, summary_response, alias_list,
                   booths_gdf, ac_pc_gdf, selection_type, samples_per_ac, ac_pc_list,
                   ac_pc_column, idx, all_summary_rows, all_selected_booths, all_results,
                   clustering_calls, sidebar, engine_target>>

Next == StartBatch \/ RegionEmpty \/ RegionClustered \/ StoreResults

Spec == Init /\ [][Next]_vars

----------------------------------------------------------------------------
(* The web service: the start-up, process requests one after another and   *)
(* the summary endpoint. With the manager installed by lifespan every      *)
(* load raises; without it the layers are those of the Data directory      *)

\* the states a request can name: none, the state of the store, an unknown one
RequestStates == {"", selected_state, "Nowhere"}

RequestTypes == {""} \cup SelectionTypes

\* the numbers a request gives for samples_per_ac
ServiceSamples == {12}

\* the samples_per_ac entry of the request body: absent, a number, or a text
\* that is no number
RequestSamples ==
    {[kind |-> "absent", value |-> 0], [kind |-> "text", value |-> 0]}
        \cup {[kind |-> "number", value |-> s] : s \in ServiceSamples}

\* main.py:177: int(data.get("samples_per_ac", 300)) raises ValueError for a
\* text that is no number
int_raises(entry) == entry.kind = "text"

\* main.py:177: int(data.get("samples_per_ac", 300))
int(entry) == IF entry.kind = "absent" THEN DefaultSamples ELSE entry.value

ServiceBoothLayers == UNION {[1 .. n -> Points] : n \in 0 .. MaxServiceBooths}

\* no handler is running: the event loop can start the next one
HandlerFree == pc \in {"ready", "done", "failed"}

InitService ==
    /\ stored \in StoredData
    /\ booths_gdf \in ServiceBoothLayers
    /\ booths_crs \in {Geographic, NoCrs}
    /\ request = Unset
    /\ summary_response = Unset
    /\ alias_list = <<>>
    /\ s3_manager = NoManager
    /\ selection_type = ""
    /\ ac_pc_gdf = EmptyLayer
    /\ samples_per_ac = 0
    /\ pc = "ready"
    /\ ac_pc_list = <<>>
    /\ ac_pc_column = None
    /\ idx = 0
    /\ all_summary_rows = <<>>
    /\ all_selected_booths = <<>>
    /\ all_results = <<>>
    /\ clustering_calls = <<>>
    /\ app_state = NoResults
    /\ response = Unset
    /\ sidebar = Unset
    /\ engine_target = Unset

\* main.py:33-43 (lifespan): at start-up, before any request is served, the
\* manager is constructed and installed; when S3Manager() raises (no
\* credentials) the start-up fails and the service serves nothing
lifespan ==
    /\ pc = "ready"
    /\ ~s3_manager.installed
    /\ request = Unset
    /\ summary_response = Unset
    /\ \E connected \in BOOLEAN :
          IF connected
          THEN /\ s3_manager' = NewManager
               /\ pc' = pc
          ELSE /\ s3_manager' = s3_manager
               /\ pc' = "stopped"
    /\ UNCHANGED <<stored, booths_crs, request, summary_response, alias_list,
                   booths_gdf, ac_pc_gdf, selection_type, samples_per_ac, ac_pc_list,
                   ac_pc_column, idx, all_summary_rows, all_selected_booths, all_results,
                   clustering_calls, app_state, response, sidebar, engine_target>>

\* main.py:170-190, 292-293: a process request arrives; its parameters are
\* read, samples_per_ac is converted, the parameters are checked and the
\* layers of its state are loaded; whatever is raised is answered with 500
Request ==
    /\ HandlerFree
    /\ \E state \in RequestStates, type \in RequestTypes, entry \in RequestSamples :
          /\ request' = Some([state |-> state, selection_type |-> type])
          /\ selection_type' = type
          /\ samples_per_ac' = IF int_raises(entry) THEN 0 ELSE int(entry)
          /\ IF int_raises(entry)
             THEN /\ response' = Some(except_handler(
                         ValueError("invalid literal for int() with base 10")))
                  /\ pc' = "failed"
                  /\ ac_pc_gdf' = EmptyLayer
             ELSE IF state = "" \/ type = ""
             THEN /\ response' = Some(except_handler(
                         HTTPException(400, "Missing required parameters")))
                  /\ pc' = "failed"
                  /\ ac_pc_gdf' = EmptyLayer
             ELSE IF prepare_booth_data_raises(s3_manager)
             THEN /\ response' = Some(except_handler(AttributeError(
                         "'S3Manager' object has no attribute 'load_shapefile'")))
                  /\ pc' = "failed"
                  /\ ac_pc_gdf' = EmptyLayer
             ELSE IF state # selected_state
             THEN /\ response' = Some(except_handler(
                         HTTPException(404, "Could not load shapefiles")))
                  /\ pc' = "failed"
                  /\ ac_pc_gdf' = EmptyLayer
             ELSE /\ response' = Unset
                  /\ pc' = "idle"
                  /\ ac_pc_gdf' = prepare_booth_data(s3_manager, stored, type)
    /\ ac_pc_list' = <<>>
    /\ ac_pc_column' = None
    /\ idx' = 0
    /\ all_summary_rows' = <<>>
    /\ all_selected_booths' = <<>>
    /\ all_results' = <<>>
    /\ clustering_calls' = <<>>
    /\ UNCHANGED <<s3_manager, stored, booths_crs, summary_response, alias_list,
                   booths_gdf, app_state,
                   sidebar, engine_target>>

\* main.py:213-217, 292-293: validate_booths_in_polygon raises in a loop
\* iteration; the handler answers and the batch ends
RegionFails ==
    /\ pc = "loop"
    /\ idx <= Len(ac_pc_list)
    /\ validate_raises(booths_crs, ac_pc_gdf)
    /\ response' = Some(except_handler(
           ValueError(to_crs_error(booths_crs, ac_pc_gdf.crs))))
    /\ pc' = "failed"
    /\ UNCHANGED <<s3_manager, stored, booths_crs, request, summary_response, alias_list,
                   booths_gdf, ac_pc_gdf, selection_type, samples_per_ac, ac_pc_list,
                   ac_pc_column, idx, all_summary_rows, all_selected_booths, all_results,
                   clustering_calls, app_state, sidebar, engine_target>>

\* main.py:296-304: the summary endpoint
get_summary ==
    /\ HandlerFree
    /\ summary_response' =
           IF app_state.summary_data = Unset
           THEN Some([status |-> 404, detail |-> "No results available"])
           ELSE Some([status |-> 200, data |-> app_state.summary_data[1]])
    /\ summary_response' # summary_response
    /\ UNCHANGED <<s3_manager, stored, booths_crs, request, alias_list,
                   booths_gdf, ac_pc_gdf, selection_type, samples_per_ac, pc, ac_pc_list,
                   ac_pc_column, idx, all_summary_rows, all_selected_booths, all_results,
                   clustering_calls, app_state, response, sidebar, engine_target>>

NextService ==
    \/ lifespan
    \/ Request
    \/ StartBatch
    \/ RegionEmpty
    \/ RegionClustered
    \/ RegionFails
    \/ StoreResults
    \/ get_summary

SpecService == InitService /\ [][NextService]_vars

----------------------------------------------------------------------------
(* The Schema Resolver on its own: every column index and alias list *)

ColumnNames == {"ac_no", "ac", "pc_no", "name"}

InitSchema ==
    /\ ac_pc_gdf \in {[columns |-> cols, crs |-> NoCrs, rows |-> <<>>] :
                        cols \in NameLists(ColumnNames, MaxColumns)}
    /\ alias_list \in NameLists(ColumnNames, MaxPatterns)
    /\ s3_manager = NoManager
    /\ pc = "schema"
    /\ stored = DemoData
    /\ booths_crs = Geographic
    /\ request = Unset
    /\ summary_response = Unset
    /\ booths_gdf = <<>>
    /\ selection_type = "AC wise"
    /\ samples_per_ac = 0
    /\ ac_pc_list = <<>>
    /\ ac_pc_column = None
    /\ idx = 0
    /\ all_summary_rows = <<>>
    /\ all_selected_booths = <<>>
    /\ all_results = <<>>
    /\ clustering_calls = <<>>
    /\ app_state = NoResults
    /\ response = Unset
    /\ sidebar = Unset
    /\ engine_target = Unset

\* main.py:203, app.py:165: ac_pc_column = get_column_name(ac_pc_gdf, code_patterns)
ResolveColumn ==
    /\ pc = "schema"
    /\ ac_pc_column' = get_column_name(ac_pc_gdf.columns, alias_list)
    /\ pc' = "resolved"
    /\ UNCHANGED <<s3_manager, stored, booths_crs, request, summary_response, alias_list,
                   booths_gdf, ac_pc_gdf, selection_type, samples_per_ac, ac_pc_list,
                   idx, all_summary_rows, all_selected_booths, all_results,
                   clustering_calls, app_state, response, sidebar, engine_target>>

NextSchema == ResolveColumn

SpecSchema == InitSchema /\ [][NextSchema]_vars

----------------------------------------------------------------------------
(* S3Manager.download_shapefile: calls one after another on one manager,   *)
(* every listing and every download succeeding or failing                  *)

\* what the listing of the state's prefix gives: a ClientError, no
\* Contents, no key of the file type, or the key of the .shp file
ListingOutcomes == {"error", "no_contents", "no_shp", "found"}

\* mutant: only the file downloaded last is removed
cleanup_files_last(temp_dir, file_paths) ==
    IF file_paths = <<>> THEN temp_dir
    ELSE temp_dir \ {file_paths[Len(file_paths)]}

\* s3_utils.py:135-141 (_cleanup_files): every listed file that exists is removed
cleanup_files(temp_dir, file_paths) ==
    temp_dir \ {file_paths[i] : i \in DOMAIN file_paths}

InitDownload ==
    /\ s3_manager = NewManager
    /\ pc = "s3_ready"
    /\ stored = DemoData
    /\ booths_crs = Geographic
    /\ request = Unset
    /\ summary_response = Unset
    /\ alias_list = <<>>
    /\ booths_gdf = <<>>
    /\ selection_type = "AC wise"
    /\ ac_pc_gdf = EmptyLayer
    /\ samples_per_ac = 0
    /\ ac_pc_list = <<>>
    /\ ac_pc_column = None
    /\ idx = 0
    /\ all_summary_rows = <<>>
    /\ all_selected_booths = <<>>
    /\ all_results = <<>>
    /\ clustering_calls = <<>>
    /\ app_state = NoResults
    /\ response = Unset
    /\ sidebar = Unset
    /\ engine_target = Unset

batch_vars ==
    <<stored, booths_crs, request, summary_response, alias_list, booths_gdf,
      ac_pc_gdf, selection_type, samples_per_ac, ac_pc_list, ac_pc_column, idx,
      all_summary_rows, all_selected_booths, all_results, clustering_calls,
      app_state, response, sidebar, engine_target>>

\* s3_utils.py:81-113: a call starts; the prefix is listed
ListObjects ==
    /\ pc \in {"s3_ready", "s3_returned"}
    /\ \E file_type \in FileTypes, listing \in ListingOutcomes :
          /\ s3_manager' = [installed |-> s3_manager.installed,
                            temp_dir |-> s3_manager.temp_dir,
                            file_type |-> file_type,
                            ext |-> IF listing = "found" THEN 1 ELSE 0,
                            downloaded_files |-> <<>>,
                            failed |-> {},
                            returned |-> Unset]
          /\ pc' = IF listing = "found" THEN "s3_loop" ELSE "s3_returned"
    /\ UNCHANGED batch_vars

\* s3_utils.py:115-125: the component is downloaded
DownloadFile ==
    /\ pc = "s3_loop"
    /\ s3_manager.ext <= Len(extensions)
    /\ LET local_path == LocalPath(s3_manager.file_type, extensions[s3_manager.ext])
       IN  s3_manager' = [s3_manager EXCEPT
               !.temp_dir = @ \cup {local_path},
               !.downloaded_files = Append(@, local_path),
               !.ext = @ + 1]
    /\ UNCHANGED <<pc, batch_vars>>

\* s3_utils.py:126-130: the download raises ClientError
DownloadFails ==
    /\ pc = "s3_loop"
    /\ s3_manager.ext <= Len(extensions)
    /\ LET ext == extensions[s3_manager.ext]
       IN  IF ext # ".prj"
           THEN /\ s3_manager' = [s3_manager EXCEPT
                       !.failed = @ \cup {ext},
                       !.temp_dir = cleanup_files(@, s3_manager.downloaded_files),
                       !.returned = Unset]
                /\ pc' = "s3_returned"
           ELSE /\ s3_manager' = [s3_manager EXCEPT
                       !.failed = @ \cup {ext},
                       !.ext = @ + 1]
                /\ pc' = pc
    /\ UNCHANGED batch_vars

\* s3_utils.py:132-133: the path of the .shp file, when the file exists
ReturnPath ==
    /\ pc = "s3_loop"
    /\ s3_manager.ext > Len(extensions)
    /\ LET shp_path == LocalPath(s3_manager.file_type, ".shp")
       IN  s3_manager' = [s3_manager EXCEPT
               !.returned = IF shp_path \in s3_manager.temp_dir
                            THEN Some(shp_path) ELSE Unset]
    /\ pc' = "s3_returned"
    /\ UNCHANGED batch_vars

\* s3_utils.py:156-162 (cleanup): between two calls the temporary directory
\* is removed with all it holds; the next call makes its directory again
\* (os.makedirs, s3_utils.py:110-111)
cleanup ==
    /\ pc \in {"s3_ready", "s3_returned"}
    /\ s3_manager' = [s3_manager EXCEPT !.temp_dir = {}]
    /\ UNCHANGED <<pc, batch_vars>>

NextDownload == ListObjects \/ DownloadFile \/ DownloadFails \/ ReturnPath \/ cleanup

SpecDownload == InitDownload /\ [][NextDownload]_vars

----------------------------------------------------------------------------
(* The cluster count of a requested sample size, in the two front ends:    *)
(* the engine called by the service for every sample size, and the         *)
(* Streamlit page, whose sidebar lines follow the loading of the layers    *)

\* the states the bucket lists
ListedStates == {<<>>, <<selected_state>>}

\* main.py:24-30, app.py:28-38: nothing is loaded and no manager installed;
\* samples_per_ac is the sample size about to be requested
InitAlloc ==
    /\ samples_per_ac \in (0 - MaxSamples) .. MaxSamples
    /\ booths_gdf = <<>>
    /\ selection_type = ""
    /\ stored = DemoData
    /\ booths_crs = Geographic
    /\ request = Unset
    /\ summary_response = Unset
    /\ alias_list = <<>>
    /\ s3_manager = NoManager
    /\ ac_pc_gdf = EmptyLayer
    /\ pc = "alloc"
    /\ ac_pc_list = <<>>
    /\ ac_pc_column = None
    /\ idx = 0
    /\ all_summary_rows = <<>>
    /\ all_selected_booths = <<>>
    /\ all_results = <<>>
    /\ clustering_calls = <<>>
    /\ app_state = NoResults
    /\ response = Unset
    /\ sidebar = Unset
    /\ engine_target = Unset

\* app.py:101-157: one run of the page. The manager is constructed when the
\* session has none (the page stops when that fails), the states are listed
\* (the page stops when there are none), and for a selected state the layers
\* are loaded before the number input and the sidebar lines; an exception
\* raised on the way ends the run
RunPage ==
    /\ pc \in {"alloc", "page_stopped", "page_raised", "page_shown"}
    /\ engine_target = Unset
    /\ \E connected \in BOOLEAN, states \in ListedStates,
          selectbox \in {"", selected_state}, radio \in SelectionTypes :
          LET manager == IF s3_manager.installed \/ ~connected
                         THEN s3_manager ELSE NewManager
              layer == prepare_booth_data(manager, stored, radio)
          IN  /\ selectbox = "" \/ \E i \in DOMAIN states : states[i] = selectbox
              /\ s3_manager' = manager
              /\ IF ~manager.installed \/ states = <<>>
                 THEN /\ pc' = "page_stopped"
                      /\ UNCHANGED <<selection_type, response, ac_pc_gdf, ac_pc_list,
                                     samples_per_ac, sidebar>>
                 ELSE IF selectbox = ""
                 THEN /\ pc' = "page_shown"
                      /\ selection_type' = radio
                      /\ UNCHANGED <<response, ac_pc_gdf, ac_pc_list, samples_per_ac,
                                     sidebar>>
                 ELSE IF prepare_booth_data_raises(manager)
                 THEN /\ pc' = "page_raised"
                      /\ selection_type' = radio
                      /\ response' = Some(AttributeError(
                             "'S3Manager' object has no attribute 'load_shapefile'"))
                      /\ UNCHANGED <<ac_pc_gdf, ac_pc_list, samples_per_ac, sidebar>>
                 ELSE IF get_ac_pc_list(layer) = <<>>
                 THEN /\ pc' = "page_stopped"
                      /\ selection_type' = radio
                      /\ ac_pc_gdf' = layer
                      /\ UNCHANGED <<response, ac_pc_list, samples_per_ac, sidebar>>
                 ELSE /\ pc' = "page_shown"
                      /\ selection_type' = radio
                      /\ ac_pc_gdf' = layer
                      /\ ac_pc_list' = get_ac_pc_list(layer)
                      /\ samples_per_ac' \in MinSamples .. MaxSamplesInput
                      /\ sidebar' = Some(
                             [clusters_per_ac |-> clusters_per_ac(samples_per_ac'),
                              booths_per_ac |-> booths_per_ac(samples_per_ac')])
                      /\ UNCHANGED response
    /\ UNCHANGED <<stored, booths_crs, request, summary_response, alias_list,
                   booths_gdf, ac_pc_column, idx, all_summary_rows,
                   all_selected_booths, all_results, clustering_calls, app_state,
                   engine_target>>

\* section 4.3: the engine allocates the clusters of any requested sample
\* size; the service calls it once the layers are loaded, without a manager
AllocateClusters ==
    /\ pc = "alloc"
    /\ ~prepare_booth_data_raises(s3_manager)
    /\ engine_target = Unset
    /\ engine_target' = Some([clusters |-> n_clusters(samples_per_ac),
                              target_selected |-> target_selected(samples_per_ac)])
    /\ UNCHANGED <<s3_manager, stored, booths_crs, request, summary_response, alias_list,
                   booths_gdf, ac_pc_gdf, selection_type, samples_per_ac, pc, ac_pc_list,
                   ac_pc_column, idx, all_summary_rows, all_selected_booths, all_results,
                   clustering_calls, app_state, response, sidebar>>

NextAlloc == RunPage \/ AllocateClusters

SpecAlloc == InitAlloc /\ [][NextAlloc]_vars

----------------------------------------------------------------------------
(* Notions the properties are stated with *)

\* k is max(1, round(s / 25)): k is the integer nearest to s / 25, or 1 when
\* the nearest integer is below 1
IsClusterCount(s, k) ==
    \/ k >= 1 /\ 2 * Abs(s - SamplesPerCluster * k) < SamplesPerCluster
    \/ k = 1 /\ 2 * s < SamplesPerCluster

\* the requested cluster count of the running batch
RequestedClusters == CHOOSE k \in 1 .. MaxSamples : IsClusterCount(samples_per_ac, k)

\* the booths (row numbers of the booth layer) inside the polygon of the region code
BoothsInside(code) ==
    {b \in 1 .. Len(booths_gdf) :
        \E i \in 1 .. Len(ac_pc_gdf.rows) :
            /\ Digits(ac_pc_gdf.rows[i].attrs[ac_pc_column]) = code
            /\ booths_gdf[b] \in ac_pc_gdf.rows[i].geometry}

\* the regions the loop has gone through, as indices of ac_pc_list
Processed == IF pc \in {"loop", "done"} THEN 1 .. (idx - 1) ELSE {}

\* the members of cluster c in a result, as positions of clustered_booths
Members(r, c) == {j \in 1 .. Len(r.clustered_booths) : r.clustered_booths[j].cluster = c}

\* the positions of selected_booths that carry cluster id c
SelectedOf(r, c) == {j \in 1 .. Len(r.selected_booths) : r.selected_booths[j].cluster = c}

ClusterIds(r) == 0 .. (Len(r.cluster_centers) - 1)

RECURSIVE CappedTotal(_, _)
\* sum over the clusters 0 .. c of min(2, cluster size)
CappedTotal(r, c) ==
    IF c < 0 THEN 0
    ELSE Min(BoothsPerCluster, Cardinality(Members(r, c))) + CappedTotal(r, c - 1)

----------------------------------------------------------------------------
(* C1: for every requested sample size s the cluster count is                *)
(* max(1, round(s / 25)), never 0, and the target number of selected booths  *)
(* is 2 times the cluster count.                                             *)
C1_ClusterCount ==
    /\ engine_target # Unset =>
          /\ IsClusterCount(samples_per_ac, engine_target[1].clusters)
          /\ engine_target[1].clusters >= 1
          /\ engine_target[1].target_selected = 2 * engine_target[1].clusters

\* a sample size below 13 was allocated one cluster, with a target of two booths
C1_Witness ==
    /\ engine_target # Unset
    /\ samples_per_ac < 13
    /\ samples_per_ac >= 0
    /\ engine_target[1].clusters = 1
    /\ engine_target[1].target_selected = 2

\* the summary row of the region at position i of ac_pc_list
RowOf(i) == all_summary_rows[i]

\* the entries of all_results for a region code
ResultsOf(code) == {k \in 1 .. Len(all_results) : all_results[k].ac_pc_code = code}

----------------------------------------------------------------------------
(* C2: a region whose containment validation returns no booths is never      *)
(* clustered: process_ac_pc_clustering is not called for it, no result entry *)
(* is kept for it, and its summary row has 0 total booths, 0 selected        *)
(* booths, the status "Not completed" and the reason "No booths found within *)
(* boundary".                                                                *)
C2_ZeroBoothRegion ==
    /\ Len(all_summary_rows) = Cardinality(Processed)
    /\ \A i \in Processed :
          BoothsInside(ac_pc_list[i][1]) = {} =>
              /\ RowOf(i)[CodeKey(selection_type)] = ac_pc_list[i][1]
              /\ RowOf(i).Total_Booths = 0
              /\ RowOf(i).Selected_Booths = 0
              /\ RowOf(i).Status = "Not completed"
              /\ RowOf(i).Reason = "No booths found within boundary"
              /\ ResultsOf(ac_pc_list[i][1]) = {}
    /\ \A k \in 1 .. Len(clustering_calls) : BoothsInside(clustering_calls[k]) # {}

\* a finished batch with one region without booths and one region clustered
C2_Witness ==
    /\ pc = "done"
    /\ \E i \in Processed : BoothsInside(ac_pc_list[i][1]) = {}
    /\ Len(clustering_calls) = 1
    /\ Len(booths_gdf) >= 2

\* the number of valid booths of the region at position i of ac_pc_list
ValidCount(i) == Cardinality(BoothsInside(ac_pc_list[i][1]))

\* the results recorded for the region at position i of ac_pc_list
ResultsAt(i) == {all_results[k] : k \in ResultsOf(ac_pc_list[i][1])}

----------------------------------------------------------------------------
(* C3 as stated: for every region with N valid booths and K clusters where  *)
(* N >= 2K, exactly 2K booths are selected and the region is complete,      *)
(* whatever cluster sizes the partition produces.                           *)
C3_Original ==
    \A i \in Processed :
        ValidCount(i) >= 2 * RequestedClusters =>
            /\ RowOf(i).Selected_Booths = 2 * RequestedClusters
            /\ RowOf(i).Status = "Completed"

(* C3 as amended: for every region with N valid booths and K clusters where *)
(* N >= 2K, each cluster contributes min(2, its size) booths; exactly 2K    *)
(* booths are selected and the region is complete when every one of the K   *)
(* clusters has at least 2 members, and fewer than 2K are selected and the  *)
(* region is not complete when some cluster has fewer than 2 members.       *)
C3_Amended ==
    \A i \in Processed :
        ValidCount(i) >= 2 * RequestedClusters =>
            /\ ResultsAt(i) # {}
            /\ \A r \in ResultsAt(i) :
                  /\ Len(r.cluster_centers) = RequestedClusters
                  /\ RowOf(i).Selected_Booths = CappedTotal(r, RequestedClusters - 1)
                  /\ (\A c \in ClusterIds(r) : Cardinality(Members(r, c)) >= 2) =>
                        /\ RowOf(i).Selected_Booths = 2 * RequestedClusters
                        /\ r.is_complete
                        /\ RowOf(i).Status = "Completed"
                  /\ (\E c \in ClusterIds(r) : Cardinality(Members(r, c)) < 2) =>
                        /\ RowOf(i).Selected_Booths < 2 * RequestedClusters
                        /\ ~r.is_complete
                        /\ RowOf(i).Status = "Not completed"

\* a region with 4 valid booths in 2 clusters of 2 members each: 4 are selected
C3_Witness ==
    /\ RequestedClusters = 2
    /\ \E i \in Processed :
          /\ ValidCount(i) >= 4
          /\ \E r \in ResultsAt(i) :
                /\ \A c \in ClusterIds(r) : Cardinality(Members(r, c)) = 2
                /\ Len(r.selected_booths) = 4
                /\ r.is_complete

----------------------------------------------------------------------------
(* C4: a region's result is complete exactly when the number of booths      *)
(* selected equals 2 times the cluster count requested by the sample size,  *)
(* also when the region has fewer booths than clusters.                     *)
C4_Completeness ==
    /\ \A i \in Processed :
          (RowOf(i).Status = "Completed")
              <=> (RowOf(i).Selected_Booths = 2 * RequestedClusters)
    /\ \A k \in 1 .. Len(all_results) :
          all_results[k].is_complete
              <=> (Len(all_results[k].selected_booths) = 2 * RequestedClusters)

\* a region with fewer valid booths than requested clusters: every booth is
\* selected, in as many clusters as booths, and the region is not complete
C4_Witness ==
    \E i \in Processed :
        /\ ValidCount(i) >= 2
        /\ ValidCount(i) < RequestedClusters
        /\ RowOf(i).Status = "Not completed"
        /\ \E r \in ResultsAt(i) :
              /\ Len(r.selected_booths) = ValidCount(i)
              /\ Len(r.cluster_centers) = ValidCount(i)

----------------------------------------------------------------------------
(* C5: in every region result the number of selected booths is between 0    *)
(* and 2 times the requested cluster count.                                 *)
C5_SelectedBounds ==
    /\ \A i \in Processed :
          /\ RowOf(i).Selected_Booths >= 0
          /\ RowOf(i).Selected_Booths <= 2 * RequestedClusters
    /\ \A k \in 1 .. Len(all_results) :
          Len(all_results[k].selected_booths) <= 2 * RequestedClusters

\* a region with more valid booths than the target: exactly the target is selected
C5_Witness ==
    \E i \in Processed :
        /\ RowOf(i).Total_Booths > 2 * RequestedClusters
        /\ RowOf(i).Selected_Booths = 2 * RequestedClusters
        /\ \E r \in ResultsAt(i) : \E c \in ClusterIds(r) : Cardinality(Members(r, c)) > 2

----------------------------------------------------------------------------
(* C6: clustering assigns every valid booth of a region to exactly one      *)
(* cluster and drops none: clustered_booths holds each booth returned by    *)
(* containment validation exactly once, with one cluster id of the result,  *)
(* and total_booths is the number of booths validation returned.            *)
C6_EveryBoothClustered ==
    \A i \in Processed :
        /\ RowOf(i).Total_Booths = ValidCount(i)
        /\ \A r \in ResultsAt(i) :
              /\ r.total_booths = ValidCount(i)
              /\ Len(r.clustered_booths) = ValidCount(i)
              /\ {r.clustered_booths[j].booth : j \in 1 .. Len(r.clustered_booths)}
                     = BoothsInside(ac_pc_list[i][1])
              /\ \A j \in 1 .. Len(r.clustered_booths) :
                    /\ r.clustered_booths[j].cluster \in ClusterIds(r)
                    /\ r.clustered_booths[j].point
                           = booths_gdf[r.clustered_booths[j].booth]

\* a region with 3 valid booths in 2 non-empty clusters, beside a booth of another region
C6_Witness ==
    \E i \in Processed :
        /\ ValidCount(i) = 3
        /\ Len(booths_gdf) = 4
        /\ \E r \in ResultsAt(i) :
              /\ Len(r.clustered_booths) = 3
              /\ \A c \in ClusterIds(r) : Members(r, c) # {}
              /\ Len(r.cluster_centers) = 2

----------------------------------------------------------------------------
(* C7: every booth of selected_booths appears in clustered_booths of the    *)
(* same result with the same cluster id, and the selected-booth table       *)
(* reports each selected booth with that cluster id.                        *)
C7_SelectedAreClustered ==
    /\ \A k \in 1 .. Len(all_results) :
          \A j \in 1 .. Len(all_results[k].selected_booths) :
              \E m \in 1 .. Len(all_results[k].clustered_booths) :
                  /\ all_results[k].clustered_booths[m].booth
                         = all_results[k].selected_booths[j].booth
                  /\ all_results[k].clustered_booths[m].cluster
                         = all_results[k].selected_booths[j].cluster
    /\ \A e \in 1 .. Len(all_selected_booths) :
          \E k \in 1 .. Len(all_results) :
              \E m \in 1 .. Len(all_results[k].clustered_booths) :
                  /\ all_results[k].clustered_booths[m].booth = all_selected_booths[e].booth
                  /\ all_results[k].clustered_booths[m].cluster
                         = all_selected_booths[e].cluster
    /\ Len(all_selected_booths)
           = SumOver([k \in 1 .. Len(all_results) |-> Len(all_results[k].selected_booths)],
                     Len(all_results))

\* booths selected from two different clusters of one region are in the table
C7_Witness ==
    /\ pc = "done"
    /\ \E k \in 1 .. Len(all_results) :
          /\ SelectedOf(all_results[k], 0) # {}
          /\ SelectedOf(all_results[k], 1) # {}
    /\ \E e \in 1 .. Len(all_selected_booths) : all_selected_booths[e].cluster = 1

\* squared distance from point p to the centroid (sx / n, sy / n), times n^2
CentroidDistance(p, centre) ==
    (centre.n * p[1] - centre.sx) * (centre.n * p[1] - centre.sx)
    + (centre.n * p[2] - centre.sy) * (centre.n * p[2] - centre.sy)

\* the booths of selected_booths that carry cluster id c
SelectedBooths(r, c) == {r.selected_booths[j].booth : j \in SelectedOf(r, c)}

----------------------------------------------------------------------------
(* C8: for every cluster the selector picks min(2, cluster size) booths,    *)
(* each once and each a member of that cluster, and no unselected member of *)
(* the cluster is strictly closer to the cluster's centroid than a selected *)
(* one.                                                                     *)
C8_NearestTwoPerCluster ==
    \A k \in 1 .. Len(all_results) :
        \A c \in ClusterIds(all_results[k]) :
            /\ Cardinality(SelectedOf(all_results[k], c))
                   = Min(2, Cardinality(Members(all_results[k], c)))
            /\ Cardinality(SelectedBooths(all_results[k], c))
                   = Cardinality(SelectedOf(all_results[k], c))
            /\ \A m \in Members(all_results[k], c) :
                  \A j \in SelectedOf(all_results[k], c) :
                      \/ all_results[k].clustered_booths[m].booth
                             \in SelectedBooths(all_results[k], c)
                      \/ CentroidDistance(all_results[k].clustered_booths[m].point,
                                          all_results[k].cluster_centers[c + 1])
                             >= CentroidDistance(all_results[k].selected_booths[j].point,
                                                 all_results[k].cluster_centers[c + 1])
            /\ SelectedBooths(all_results[k], c)
                   \subseteq {all_results[k].clustered_booths[m].booth :
                                 m \in Members(all_results[k], c)}

\* a cluster of 3 members whose unselected member, first in input order, is
\* strictly farther from the centroid than both selected members
C8_Witness ==
    \E k \in 1 .. Len(all_results) :
        \E c \in ClusterIds(all_results[k]) :
            /\ Cardinality(Members(all_results[k], c)) = 3
            /\ Cardinality(SelectedOf(all_results[k], c)) = 2
            /\ \E m \in Members(all_results[k], c) :
                  /\ all_results[k].clustered_booths[m].booth
                         \notin SelectedBooths(all_results[k], c)
                  /\ \A o \in Members(all_results[k], c) : m <= o
                  /\ \A j \in SelectedOf(all_results[k], c) :
                        CentroidDistance(all_results[k].clustered_booths[m].point,
                                         all_results[k].cluster_centers[c + 1])
                            > CentroidDistance(all_results[k].selected_booths[j].point,
                                               all_results[k].cluster_centers[c + 1])

----------------------------------------------------------------------------
(* C9: for a region with N valid booths and K requested clusters where      *)
(* N < 2K, the number selected is the sum over the clusters of min(2, size) *)
(* (N itself when no cluster has more than 2 members), the region is not    *)
(* complete and the reason names the lack of booths.                        *)
NamesInsufficientBooths(text) ==
    text \in {ReasonInsufficient, ReasonReduced, "No booths found within boundary"}

C9_InsufficientBooths ==
    \A i \in Processed :
        ValidCount(i) < 2 * RequestedClusters =>
            /\ RowOf(i).Status = "Not completed"
            /\ NamesInsufficientBooths(RowOf(i).Reason)
            /\ RowOf(i).Selected_Booths <= ValidCount(i)
            /\ ValidCount(i) > 0 => ResultsAt(i) # {}
            /\ \A r \in ResultsAt(i) :
                  /\ ~r.is_complete
                  /\ RowOf(i).Selected_Booths
                         = CappedTotal(r, Len(r.cluster_centers) - 1)
                  /\ (\A c \in ClusterIds(r) : Cardinality(Members(r, c)) <= 2) =>
                        RowOf(i).Selected_Booths = ValidCount(i)

\* a region with 3 valid booths and 2 requested clusters: all 3 are selected
C9_Witness ==
    \E i \in Processed :
        /\ RequestedClusters = 2
        /\ ValidCount(i) = 3
        /\ RowOf(i).Selected_Booths = 3
        /\ RowOf(i).Status = "Not completed"
        /\ RowOf(i).Reason = ReasonInsufficient

----------------------------------------------------------------------------
\* the code and the name of a summary row of the running batch
RowCode(row) == row[CodeKey(selection_type)]

RowName(row) == row[NameKey(selection_type)]

\* rows has one row per region of ac_pc_list[1 .. n], in list order
OneRowPerRegion(rows, n) ==
    /\ Len(rows) = n
    /\ \A i \in 1 .. n :
          /\ RowCode(rows[i]) = ac_pc_list[i][1]
          /\ RowName(rows[i]) = ac_pc_list[i][2]

(* C11: a batch that has started on a non-empty region list is not aborted: *)
(* it never fails once the loop has begun, each iteration adds the row of   *)
(* its region, and the stored summary of the finished batch has exactly one *)
(* row per region of the list, in list order.                               *)
C11_EveryRegionProcessed ==
    /\ pc = "failed" => idx = 0
    /\ pc = "loop" => OneRowPerRegion(all_summary_rows, idx - 1)
    /\ pc = "done" =>
          /\ app_state.summary_data # Unset
          /\ OneRowPerRegion(app_state.summary_data[1], Len(ac_pc_list))

----------------------------------------------------------------------------
\* no column of the loaded region layer matches an alias of the code field
\* of the selection type
NoCodeColumn ==
    \A i \in DOMAIN code_patterns(selection_type) :
        \A j \in DOMAIN ac_pc_gdf.columns :
            ac_pc_gdf.columns[j] # code_patterns(selection_type)[i]

\* nothing has been validated or clustered in the running batch
NothingProcessed ==
    /\ idx = 0
    /\ clustering_calls = <<>>
    /\ all_results = <<>>
    /\ all_summary_rows = <<>>
    /\ all_selected_booths = <<>>

\* the request was answered with an error
AnsweredWithError == response # Unset /\ response[1].status # 200

(* C12: when no column of the region layer matches an alias of the code     *)
(* field of the selection type, the batch fails as a whole with one error:  *)
(* no region is validated or clustered and the stored results, summary and  *)
(* selected-booth tables stay as they were.                                 *)
C12_NoCodeColumnFails ==
    [][(pc = "idle" /\ NoCodeColumn) =>
          /\ pc' = "failed"
          /\ AnsweredWithError'
          /\ NothingProcessed'
          /\ app_state' = app_state]_vars

\* a batch on a layer with a list but without the code column has failed
\* while the tables of an earlier batch are stored
C12_Witness ==
    /\ pc = "failed"
    /\ ac_pc_gdf # EmptyLayer
    /\ NoCodeColumn
    /\ ac_pc_list # <<>>
    /\ app_state.summary_data # Unset
    /\ AnsweredWithError

----------------------------------------------------------------------------
\* the alias is among the column names of the layer
Present(alias) == \E j \in DOMAIN ac_pc_gdf.columns : ac_pc_gdf.columns[j] = alias

\* the column indexes with the same names as the layer's, in any order
Reorderings ==
    {cols \in NameLists(ColumnNames, MaxColumns) :
        ColumnSet(cols) = ColumnSet(ac_pc_gdf.columns)}

(* C13: get_column_name returns the first alias of the ordered alias list   *)
(* that is among the column names, and None when no alias is; every         *)
(* reordering of the columns gives the same result.                         *)
C13_FirstPresentAlias ==
    pc = "resolved" =>
        /\ (\A i \in DOMAIN alias_list : ~Present(alias_list[i])) => ac_pc_column = None
        /\ \A i \in DOMAIN alias_list :
              (Present(alias_list[i]) /\ \A k \in 1 .. (i - 1) : ~Present(alias_list[k]))
                  => ac_pc_column = alias_list[i]
        /\ \A cols \in Reorderings : get_column_name(cols, alias_list) = ac_pc_column

\* two aliases are present, the later one in an earlier column, and the
\* first alias of the list was returned
C13_Witness ==
    /\ pc = "resolved"
    /\ Len(alias_list) = 3
    /\ ~Present(alias_list[1])
    /\ Present(alias_list[2])
    /\ Present(alias_list[3])
    /\ ac_pc_gdf.columns[1] = alias_list[3]
    /\ ac_pc_column = alias_list[2]

----------------------------------------------------------------------------
\* the rows of the region layer whose code column, as a string, is the code
PolygonRows(code) ==
    {i \in 1 .. Len(ac_pc_gdf.rows) :
        Digits(ac_pc_gdf.rows[i].attrs[ac_pc_column]) = code}

\* the polygon row validation takes for the code: the first of PolygonRows
PolygonRow(code) == CHOOSE i \in PolygonRows(code) : \A k \in PolygonRows(code) : i <= k

\* the booths whose point, in the reference of the region layer, lies within
\* the geometry of the polygon row of the code; none without such a row
BoothsWithin(code) ==
    IF PolygonRows(code) = {} THEN {}
    ELSE {b \in 1 .. Len(booths_gdf) :
             transform(booths_gdf[b], booths_crs, ac_pc_gdf.crs)
                 \in ac_pc_gdf.rows[PolygonRow(code)].geometry}

\* validate_booths_in_polygon has raised in the running batch: the batch had
\* resolved its code column and begun its loop, and the request was answered
\* with the ValueError of to_crs
ValidationRaised ==
    /\ pc = "failed"
    /\ ac_pc_column # None
    /\ idx >= 1
    /\ response # Unset
    /\ response[1].detail = ValueError(to_crs_error(booths_crs, ac_pc_gdf.crs))

(* C14: validate_booths_in_polygon raises no error, and for every region it *)
(* was called for it returned exactly the booths whose point lies within    *)
(* the geometry of the polygon row with the region's code: the region's     *)
(* total is their number, a region with such booths has one result whose    *)
(* clustered booths are exactly these, and a region without them has none.  *)
C14_BoothsWithinMatchingPolygon ==
    /\ ~ValidationRaised
    /\ \A i \in Processed :
          /\ RowOf(i).Total_Booths = Cardinality(BoothsWithin(ac_pc_list[i][1]))
          /\ \A r \in ResultsAt(i) :
                {r.clustered_booths[j].booth : j \in 1 .. Len(r.clustered_booths)}
                    = BoothsWithin(ac_pc_list[i][1])
          /\ BoothsWithin(ac_pc_list[i][1]) = {} <=> ResultsAt(i) = {}

----------------------------------------------------------------------------
\* the booths (row numbers of the booth layer) counted as valid in a result
ValidBooths(r) == {r.clustered_booths[j].booth : j \in 1 .. Len(r.clustered_booths)}

(* C15: within one batch no booth is a valid booth of two different         *)
(* regions: the valid-booth sets of two results of the batch share no booth,*)
(* and so no booth is selected for two regions.                             *)
C15_BoothInOneRegion ==
    \A k, m \in 1 .. Len(all_results) :
        k # m =>
            /\ ValidBooths(all_results[k]) \cap ValidBooths(all_results[m]) = {}
            /\ \A e \in 1 .. Len(all_results[k].selected_booths) :
                  \A f \in 1 .. Len(all_results[m].selected_booths) :
                      all_results[k].selected_booths[e].booth
                          # all_results[m].selected_booths[f].booth

----------------------------------------------------------------------------
\* the summary rows a region of the batch gets when it is processed on its
\* own on the layers: one row for every initialisation of the clustering
RowsAlone(code, name, valid_booths) ==
    IF IsEmpty(valid_booths)
    THEN {EmptySummaryRow(selection_type, code, name, samples_per_ac)}
    ELSE {SummaryRow(selection_type, code, name,
                     process_ac_pc_clustering(valid_booths, samples_per_ac, seed),
                     samples_per_ac) :
             seed \in Seeds(Len(valid_booths),
                            reduced_clusters(Len(valid_booths), samples_per_ac))}

RowsOfRegionAlone(i) ==
    RowsAlone(ac_pc_list[i][1], ac_pc_list[i][2],
              validate_booths_in_polygon(booths_gdf, booths_crs, ac_pc_gdf,
                                         ac_pc_list[i][1], ac_pc_column))

\* a loop iteration leaves the booth layer and the region layer as they were
\* and keeps the rows recorded so far
LayersUntouched ==
    pc = "loop" =>
        /\ booths_gdf' = booths_gdf
        /\ booths_crs' = booths_crs
        /\ ac_pc_gdf' = ac_pc_gdf
        /\ \A i \in 1 .. Len(all_summary_rows) : all_summary_rows'[i] = all_summary_rows[i]

\* the row the loop has just recorded is a row its region gets alone
LastRowAsAlone ==
    (pc = "loop" /\ idx > 1) => RowOf(idx - 1) \in RowsOfRegionAlone(idx - 1)

(* C16: regions are processed independently: a loop iteration changes       *)
(* neither the booth layer nor the region layer nor the rows recorded       *)
(* before, and the row it records for its region is a row the region gets   *)
(* when it is processed alone on these layers, whatever regions were        *)
(* processed before it.                                                     *)
C16_RegionsIndependent ==
    /\ []LastRowAsAlone
    /\ [][LayersUntouched]_vars

\* a finished batch in which two regions were clustered one after the other,
\* the booths reprojected for each
C16_Witness ==
    /\ pc = "done"
    /\ Len(all_results) = 2
    /\ booths_crs # ac_pc_gdf.crs
    /\ all_results[1].total_booths > 0
    /\ all_results[2].total_booths > 0

----------------------------------------------------------------------------
\* the booths whose raw coordinates lie within the geometry of the polygon
\* row of the code
RawBoothsWithin(code) ==
    IF PolygonRows(code) = {} THEN {}
    ELSE {b \in 1 .. Len(booths_gdf) :
             booths_gdf[b] \in ac_pc_gdf.rows[PolygonRow(code)].geometry}

\* a batch runs on layers of which at least one has no coordinate reference
MissingReference ==
    /\ pc \in {"loop", "done", "failed"}
    /\ ac_pc_column # None
    /\ booths_crs = NoCrs \/ ac_pc_gdf.crs = NoCrs

(* C17: when the booth layer or the polygon layer has no coordinate         *)
(* reference, validate_booths_in_polygon does not fail: it tests the raw    *)
(* coordinates without reprojecting, so every region it was called for has  *)
(* as its total the booths whose raw point lies within the region's polygon.*)
C17_MissingReferenceTestsRaw ==
    MissingReference =>
        /\ ~ValidationRaised
        /\ \A i \in Processed :
              RowOf(i).Total_Booths = Cardinality(RawBoothsWithin(ac_pc_list[i][1]))

----------------------------------------------------------------------------
\* the running request lacks the state or the selection type
MissingParameters ==
    /\ request # Unset
    /\ request[1].state = "" \/ request[1].selection_type = ""

\* the conversion of samples_per_ac has raised in the running request
\* (main.py:177), before its parameters were looked at
ConversionRaised ==
    /\ pc = "failed"
    /\ response # Unset
    /\ response[1].detail = ValueError("invalid literal for int() with base 10")

\* the running request names a state and a type, its sample size is a number,
\* and the layers of the state cannot be loaded or give no region list
NotLoadable ==
    /\ request # Unset
    /\ ~MissingParameters
    /\ ~ConversionRaised
    /\ \/ prepare_booth_data_raises(s3_manager)
       \/ request[1].state # selected_state
       \/ get_ac_pc_list(ac_pc_gdf) = <<>>

\* the status the process request was answered with
AnsweredStatus == response[1].status

(* C18: a process request without the state or the selection type is        *)
(* answered with status 400, and one whose layers or region list cannot be  *)
(* loaded with status 404; in both cases no region is processed and the     *)
(* stored tables stay as they were. The requests meant give a number as     *)
(* sample size or none.                                                     *)
C18_BadRequestStatus ==
    [][/\ (pc' = "failed" /\ MissingParameters' /\ ~ConversionRaised') =>
             /\ AnsweredStatus' = 400
             /\ NothingProcessed'
             /\ app_state' = app_state
       /\ (pc' = "failed" /\ NotLoadable') =>
             /\ AnsweredStatus' = 404
             /\ NothingProcessed'
             /\ app_state' = app_state]_vars

\* C18 without the status: nothing is processed and the tables are kept
BadRequestChangesNothing ==
    [][(pc' = "failed" /\ (MissingParameters' \/ NotLoadable')) =>
          /\ AnsweredWithError'
          /\ NothingProcessed'
          /\ app_state' = app_state]_vars

----------------------------------------------------------------------------
\* the column get_ac_pc_list took the region codes from
ListedColumn == get_column_name(ac_pc_gdf.columns, ListCodePatterns)

(* C19: on every region layer a batch runs on, the codes of the region list *)
(* and the codes validation matches come from the same column, so for every *)
(* (code, name) pair of the list validation finds a polygon row with that   *)
(* code.                                                                    *)
C19_ListedCodesAreMatched ==
    pc \in {"loop", "done"} =>
        /\ ListedColumn = ac_pc_column
        /\ \A i \in 1 .. Len(ac_pc_list) : PolygonRows(ac_pc_list[i][1]) # {}

----------------------------------------------------------------------------
\* the three tables of the batch that has just finished
TablesOfBatch ==
    [results |-> Some(all_results),
     summary_data |-> Some(all_summary_rows),
     selected_booths_data |-> Some(all_selected_booths)]

\* the stored tables are all unset or all set
AllOrNothing ==
    \/ app_state = NoResults
    \/ /\ app_state.results # Unset
       /\ app_state.summary_data # Unset
       /\ app_state.selected_booths_data # Unset

(* C20: the stored results, summary table and selected-booth table always   *)
(* come from one successfully finished batch: they are all unset or all     *)
(* set, a batch that finishes stores its own three tables, and no other     *)
(* step, a failing batch included, changes any of them; so whenever an      *)
(* endpoint reads them they are those of the latest successful batch.       *)
C20_TablesFromOneBatch ==
    /\ [](AllOrNothing /\ (pc = "done" => app_state = TablesOfBatch))
    /\ [][pc' = "done" \/ app_state' = app_state]_vars

\* after a batch was stored and read, a second batch with another summary
\* has been stored, and then a request has failed
C20_Witness ==
    /\ pc = "failed"
    /\ summary_response # Unset
    /\ summary_response[1].status = 200
    /\ app_state.summary_data # Unset
    /\ summary_response[1].data # app_state.summary_data[1]
    /\ app_state.selected_booths_data[1] # <<>>

----------------------------------------------------------------------------
\* the components a shapefile cannot be read without
RequiredExtensions == {".shp", ".shx", ".dbf"}

\* the components the call has downloaded
DownloadedExtensions ==
    {s3_manager.downloaded_files[i][2] : i \in DOMAIN s3_manager.downloaded_files}

(* C21: download_shapefile returns a local path only when the .shp, .shx    *)
(* and .dbf components were all downloaded in the call, and the path is the *)
(* .shp file's; when one of the three fails it returns None and no file it  *)
(* downloaded in the call is left in the directory; when only the .prj      *)
(* download fails it returns the path.                                      *)
C21_PathOnlyForCompleteShapefile ==
    pc = "s3_returned" =>
        /\ s3_manager.returned # Unset =>
              /\ RequiredExtensions \subseteq DownloadedExtensions
              /\ s3_manager.returned = Some(LocalPath(s3_manager.file_type, ".shp"))
        /\ s3_manager.failed \cap RequiredExtensions # {} =>
              /\ s3_manager.returned = Unset
              /\ \A i \in DOMAIN s3_manager.downloaded_files :
                    s3_manager.downloaded_files[i] \notin s3_manager.temp_dir
        /\ s3_manager.failed = {".prj"} =>
              /\ s3_manager.returned # Unset
              /\ RequiredExtensions \subseteq DownloadedExtensions

\* a call has returned None after the .dbf download failed: the .shp and
\* .shx files it had downloaded are gone, while the .prj file of an earlier
\* call and a file of the other layer are still in the directory
C21_Witness ==
    /\ pc = "s3_returned"
    /\ s3_manager.failed = {".dbf"}
    /\ Len(s3_manager.downloaded_files) = 2
    /\ s3_manager.returned = Unset
    /\ LocalPath(s3_manager.file_type, ".prj") \in s3_manager.temp_dir
    /\ \E p \in s3_manager.temp_dir : p[1] # s3_manager.file_type

====
